---- MODULE Spec2Model ----
(***************************************************************************)
(* State-change batching engine of JState (class AppState): the committed  *)
(* state, the pending-change buffer, the handler registry and the single   *)
(* deferred flush armed through setTimeout(..., 0).                        *)
(*                                                                         *)
(* A JavaScript object whose iteration order the program observes (the     *)
(* argument of setState/applyState, the pending buffer) is a sequence of   *)
(* [key, value] pairs in insertion order; an object the program only reads *)
(* by key (state, stateApplierFunctionMap) is a function on its own keys.  *)
(***************************************************************************)
EXTENDS FiniteSets, Integers, Sequences, TLC

\* ---- bounds ----
MaxTimers == 2
MaxArgLen == 2
MaxBindings == 2

\* ---- the values the inputs are drawn from ----
Keys == {"a", "b"}
Values == {"v1", "v2"}
Fns == {"fn1", "fn2"}
\* functions of the caller that do more than return: see Throws and CallsStore
CallerFns == {"fnThrow", "fnApplyA"}
Undefined == "undefined"
Null == "null"
NullTimeout == 0

VARIABLES
    phase,                    \* "new" | "ready" | "failed" : outcome of new AppState(funcMap)
    stateApplierFunctionMap,  \* this.stateApplierFunctionMap
    state,                    \* this.state
    nextStateChanges,         \* this.nextStateChanges (insertion ordered)
    applierTimeout,           \* this.applierTimeout
    timers,                   \* timer ids the host still has scheduled
    timerSeq,                 \* number of timer ids handed out by setTimeout
    flushLog,                 \* what the last step did with each pending key, in order:
                              \* written by the flush, empty after any call of the API
    result,                   \* what the last call or callback gave back: "this" | "undefined" | "throw"
    lastApplied,              \* history: key -> value given by the last applyState of the window
    lastStage,                \* history: key -> the last staging of the window for that key
    flushedStage,             \* history: lastStage as the last step, a flush, found it
    unhandledStage,           \* history: key -> the value staged for it by a call made while
                              \* the key had no handler, "none" when there is no such value
    staging,                  \* history: key -> the handler the key had when the change
                              \* pending for it was last staged: "unstaged" when no change
                              \* was staged for it, "none" when it had no handler then
    flushedStaging,           \* history: staging as the last step, a flush, found it
    listeners,                \* element -> the listeners bindStateEvent attached, in order
    bindSeq,                  \* number of bindStateEvent calls made
    formTarget,               \* bindFormState: the object its handlers write to:
                              \* "none" | "targetObject" | "newObject"
    formReturn,               \* what the bindFormState call returned:
                              \* "none" | "undefined" | "targetObject" | "newObject"
    formState,                \* the contents of the object the handlers write to
    formListeners,            \* the listeners bindFormState attached
    changeFunction,           \* the changeFunc the handlers hold
    changeLog,                \* the calls of changeFunc made by the last event
    lastHandler               \* the handler the last event ran: "none" when it ran none

store == <<phase, stateApplierFunctionMap, state, nextStateChanges, applierTimeout,
           timers, timerSeq, flushLog, result>>

history == <<lastApplied, lastStage, flushedStage>>

\* what the store and its window history leave alone
bindings == <<listeners, bindSeq>>

form == <<formTarget, formReturn, formState, formListeners, changeFunction, changeLog,
          lastHandler>>

stagings == <<staging, flushedStaging>>

rest == <<unhandledStage, stagings, bindings, form>>

vars == <<store, history, rest>>

\* ---- utilities (the type tests of the library) ----

\* Object.prototype.toString class of a property value
TypeTag(x) ==
    IF x \in Fns \cup CallerFns THEN "Function"
    ELSE IF x = Null THEN "Null"
    ELSE IF x = Undefined THEN "Undefined"
    ELSE "String"

isType(obj, type) == obj.t = type

\* variant: an array passes for a plain object
isObjectOrArray(obj) == isType(obj, "Object") \/ isType(obj, "Array")

isObject(obj) == isType(obj, "Object")

isFunction(x) == TypeTag(x) = "Function"

isNull(x) == x = Null

isUndefined(x) == x = Undefined

\* ---- property access on JavaScript objects ----

EmptyObj == [k \in {} |-> Undefined]

\* obj[k] : undefined when k is not a property
Get(obj, k) == IF k \in DOMAIN obj THEN obj[k] ELSE Undefined

\* obj[k] = v
Set(obj, k, v) == (k :> v) @@ obj

\* delete obj[k]
Delete(obj, k) == [x \in (DOMAIN obj) \ {k} |-> obj[x]]

PairKeys(o) == {o[i].key : i \in DOMAIN o}

\* o[k] = v on an insertion-ordered object: an existing key keeps its place
PairPut(o, k, v) ==
    IF k \in PairKeys(o)
    THEN [i \in DOMAIN o |-> IF o[i].key = k THEN [key |-> k, value |-> v] ELSE o[i]]
    ELSE Append(o, [key |-> k, value |-> v])

PairGet(o, k) ==
    IF k \in PairKeys(o)
    THEN (CHOOSE p \in {o[i] : i \in DOMAIN o} : p.key = k).value
    ELSE Undefined


\* ---- the inputs ----

\* insertion-ordered objects of at most MaxArgLen entries, keys from ks, values from vs
PairSeqs(ks, vs) == UNION {[1..n -> [key : ks, value : vs]] : n \in 0..MaxArgLen}

DistinctKeys(o) == \A i, j \in DOMAIN o : o[i].key = o[j].key => i = j

\* plain objects { key: value, ... }
StateObjects ==
    {[t |-> "Object", o |-> o] : o \in {x \in PairSeqs(Keys, Values) : DistinctKeys(x)}}

\* values that are not plain objects: null, undefined, a primitive, an array, a function
NonObjects ==
    {[t |-> "Null", o |-> <<>>],
     [t |-> "Undefined", o |-> <<>>],
     [t |-> "String", o |-> <<>>],
     [t |-> "Array", o |-> <<[key |-> "0", value |-> "v1"]>>],
     [t |-> "Function", o |-> <<>>]}

StateArgs == StateObjects \cup NonObjects

\* what a caller may pass as a handler: a function, null, undefined, or something else
FuncValues == Fns \cup {Null, Undefined, "notAFunction"}

\* handler maps given to the constructor, and non-objects given in their place
FuncMapArgs ==
    {[t |-> "Object", o |-> o] : o \in {x \in PairSeqs(Keys, Fns \cup {Null}) : DistinctKeys(x)}}
    \cup {[t |-> "Null", o |-> <<>>],
          [t |-> "String", o |-> <<>>],
          [t |-> "Number", o |-> <<>>],
          [t |-> "Array", o |-> <<[key |-> "0", value |-> "fn1"]>>],
          [t |-> "Function", o |-> <<>>]}

\* the arguments object of touchState(memberName...)
TouchArgs == UNION {[1..n -> Keys] : n \in 0..MaxArgLen}

\* the ids setTimeout hands out
TimerIds == 1..MaxTimers

\* ---- bindStateEvent: elements, selections and payloads ----

Elements == {"e1", "e2"}

\* document.querySelectorAll(selector), in document order
querySelectorAll(selector) ==
    IF selector = ".one" THEN <<"e1">>
    ELSE IF selector = ".all" THEN <<"e1", "e2">>
    ELSE <<>>

\* a selector string, or an array of elements (an element may be listed twice)
Selections ==
    {[t |-> "String", selector |-> sel, elements |-> <<>>] : sel \in {".one", ".all", ".none"}}
    \cup {[t |-> "Array", selector |-> "", elements |-> g] :
             g \in UNION {[1..n -> Elements] : n \in 0..MaxArgLen}}

\* the functions a caller passes as nextState
NextStateFns == {"swapA", "giveNull"}

\* nextState of bindStateEvent: an object, null, a function, or an async function
BindPayloads ==
    {[t |-> "Object", o |-> <<[key |-> "a", value |-> "v1"]>>, f |-> "none"],
     [t |-> "Object", o |-> <<[key |-> "b", value |-> "v2"]>>, f |-> "none"],
     [t |-> "Null", o |-> <<>>, f |-> "none"]}
    \cup {[t |-> tag, o |-> <<>>, f |-> fn] :
             tag \in {"Function", "AsyncFunction"}, fn \in NextStateFns}

\* nextState(event, self.state): what the caller's function returns. An async function
\* returns a promise, whatever its body computes.
Return(nextState, st) ==
    IF nextState.t = "AsyncFunction" THEN [t |-> "Promise", o |-> <<>>, f |-> "none"]
    ELSE IF nextState.f = "swapA"
         THEN [t |-> "Object",
               o |-> <<[key |-> "a", value |-> IF Get(st, "a") = "v1" THEN "v2" ELSE "v1"]>>,
               f |-> "none"]
    ELSE [t |-> "Null", o |-> <<>>, f |-> "none"]

\* ---- bindFormState: fields, their DOM state, and the arguments ----

\* a value held by the form state: a string, or an array of strings
StringValue(x) == [t |-> "String", v |-> <<x>>]

ArrayValue(xs) == [t |-> "Array", v |-> xs]

\* what reading a member that is not there gives
Absent == [t |-> "Undefined", v |-> <<>>]

Member(obj, k) == IF k \in DOMAIN obj THEN obj[k] ELSE Absent

\* !x for an attribute value: null (no attribute) and the empty string are falsy
Falsy(x) == x \in {Null, Undefined, ""}

\* the fields of the document: name and multiple are what getAttribute gives, null when
\* the attribute is absent, "" when it is written without a value (<select multiple>)
Fields ==
    {[id |-> "text",     tagName |-> "INPUT",    type |-> "text",     name |-> "n1", multiple |-> Null],
     [id |-> "text0",    tagName |-> "INPUT",    type |-> "text",     name |-> Null, multiple |-> Null],
     [id |-> "area",     tagName |-> "TEXTAREA", type |-> "textarea", name |-> "n2", multiple |-> Null],
     [id |-> "check",    tagName |-> "INPUT",    type |-> "checkbox", name |-> "n1", multiple |-> Null],
     [id |-> "check0",   tagName |-> "INPUT",    type |-> "checkbox", name |-> "",   multiple |-> Null],
     [id |-> "radio",    tagName |-> "INPUT",    type |-> "radio",    name |-> "n2", multiple |-> Null],
     [id |-> "button",   tagName |-> "INPUT",    type |-> "button",   name |-> "n1", multiple |-> Null],
     [id |-> "select",   tagName |-> "SELECT",   type |-> "select-one",      name |-> "n1", multiple |-> Null],
     [id |-> "selectM",  tagName |-> "SELECT",   type |-> "select-multiple", name |-> "n2", multiple |-> ""],
     [id |-> "selectMM", tagName |-> "SELECT",   type |-> "select-multiple", name |-> "n2", multiple |-> "multiple"],
     [id |-> "select0",  tagName |-> "SELECT",   type |-> "select-multiple", name |-> Null, multiple |-> "multiple"]}

\* element.options of every select, in document order (their values)
Options == <<"v1", "v2">>

\* the values of the options at the positions selected, in document order
RECURSIVE SelectedValues(_, _)
SelectedValues(i, selected) ==
    IF i > Len(Options) THEN <<>>
    ELSE IF i \in selected THEN <<Options[i]>> \o SelectedValues(i + 1, selected)
    ELSE SelectedValues(i + 1, selected)

\* element.value of a select: the value of its first selected option, "" when none is
SelectValue(selected) ==
    IF selected = {} THEN ""
    ELSE Options[CHOOSE i \in selected : \A j \in selected : i <= j]

\* the DOM state a field can be in when an event fires on it
DomStates(field) ==
    IF field.tagName = "SELECT"
    THEN {[checked |-> FALSE, value |-> SelectValue(sel), selected |-> sel] :
            sel \in {x \in SUBSET DOMAIN Options :
                        field.type = "select-multiple" \/ Cardinality(x) <= 1}}
    ELSE {[checked |-> c, value |-> v, selected |-> {}] : c \in BOOLEAN, v \in Values}

EventNames == {"change", "keyup"}

\* formElements: an array or a NodeList of fields, or nothing
FormElementArgs ==
    {[t |-> k, items |-> xs] :
        k \in {"Array", "NodeList"}, xs \in UNION {[1..n -> Fields] : n \in 0..MaxArgLen}}
    \cup {[t |-> "Undefined", items |-> <<>>], [t |-> "Null", items |-> <<>>]}

\* targetObject: an object, or undefined or null
TargetArgs ==
    {[t |-> "Object", m |-> EmptyObj],
     [t |-> "Object", m |-> ("n1" :> StringValue("v2"))],
     [t |-> "Undefined", m |-> EmptyObj],
     [t |-> "Null", m |-> EmptyObj]}

\* changeFunc: a function, or undefined
ChangeFuncArgs == {"changeFunc", Undefined}

\* isBlank(obj), for the values formElements is given
isBlank(obj) ==
    \/ isType(obj, "Undefined")
    \/ isType(obj, "Null")
    \/ (isType(obj, "Array") /\ Len(obj.items) = 0)

\* ---- the history of the current coalescing window ----

NoStage == [by |-> "none", value |-> Undefined, old |-> Undefined]

NoWindow == [k \in Keys |-> NoStage]

NoneApplied == [k \in Keys |-> "none"]

NoStagings == [k \in Keys |-> "unstaged"]


\* ---- AppState: the operations on the fields ----

\* delete this.stateApplierFunctionMap[name]
removeHandler(map, name) == Delete(map, name)

\* variant: null or undefined in place of the function is passed over
addHandlerIgnoreEmpty(map, name, func) ==
    IF isFunction(func) THEN Set(map, name, func) ELSE map

\* variant: a name that has a handler keeps it
addHandlerKeepFirst(map, name, func) ==
    IF isFunction(func) THEN (IF name \in DOMAIN map THEN map ELSE Set(map, name, func))
    ELSE IF isNull(func) \/ isUndefined(func) THEN removeHandler(map, name)
    ELSE map

\* addHandler(name, func): register a function, unregister on null/undefined, else nothing
addHandler(map, name, func) ==
    IF isFunction(func) THEN Set(map, name, func)
    ELSE IF isNull(func) \/ isUndefined(func) THEN removeHandler(map, name)
    ELSE map

\* constructor: each(funcMap, (f, n) => this.addHandler(n, f))
RECURSIVE ConstructEach(_, _)
ConstructEach(o, map) ==
    IF o = <<>> THEN map
    ELSE ConstructEach(Tail(o), addHandler(map, Head(o).key, Head(o).value))

\* variant: the object replaces the state instead of being merged into it
RECURSIVE SetEachReplace(_, _)
SetEachReplace(o, st) ==
    IF o = <<>> THEN EmptyObj
    ELSE Set(SetEachReplace(Tail(o), st), Head(o).key, Head(o).value)

\* setState: each(nextState, (value, key) => this.state[key] = value)
RECURSIVE SetEach(_, _)
SetEach(o, st) ==
    IF o = <<>> THEN st
    ELSE SetEach(Tail(o), Set(st, Head(o).key, Head(o).value))

\* variant: every key is staged, changed or not
RECURSIVE ApplyEachAlways(_, _, _)
ApplyEachAlways(o, st, changes) ==
    IF o = <<>> THEN changes
    ELSE ApplyEachAlways(Tail(o), st, PairPut(changes, Head(o).key, Head(o).value))

\* applyState: stage every key whose value differs from the committed one
RECURSIVE ApplyEach(_, _, _)
ApplyEach(o, st, changes) ==
    IF o = <<>> THEN changes
    ELSE ApplyEach(Tail(o), st,
                   IF Get(st, Head(o).key) # Head(o).value
                   THEN PairPut(changes, Head(o).key, Head(o).value)
                   ELSE changes)

\* variant: the committed value is read under an unbound key, which gives undefined
RECURSIVE TouchEachWrongKey(_, _, _, _)
TouchEachWrongKey(names, map, st, changes) ==
    IF names = <<>> THEN changes
    ELSE TouchEachWrongKey(Tail(names), map, st,
                           IF Head(names) \in DOMAIN map
                           THEN PairPut(changes, Head(names), Undefined)
                           ELSE changes)

\* touchState: stage the committed value of every named member that has a handler
RECURSIVE TouchEach(_, _, _, _)
TouchEach(names, map, st, changes) ==
    IF names = <<>> THEN changes
    ELSE TouchEach(Tail(names), map, st,
                   IF Head(names) \in DOMAIN map
                   THEN PairPut(changes, Head(names), Get(st, Head(names)))
                   ELSE changes)

\* variant: the armed flush is not cleared before the new one is set
STATETIMEOUTAPPLYNoClear(timeout, scheduled, seq) ==
    [applierTimeout |-> seq + 1, timers |-> scheduled \cup {seq + 1}, timerSeq |-> seq + 1]

\* _STATETIMEOUTAPPLY: clearTimeout of the armed flush, then setTimeout of a new one
STATETIMEOUTAPPLY(timeout, scheduled, seq) ==
    LET cleared == IF timeout # NullTimeout THEN scheduled \ {timeout} ELSE scheduled
    IN [applierTimeout |-> seq + 1, timers |-> cleared \cup {seq + 1}, timerSeq |-> seq + 1]

\* variant: the value is committed whether or not the key has a handler
RECURSIVE FlushEachCommitAll(_, _, _, _)
FlushEachCommitAll(changes, map, st, log) ==
    IF changes = <<>> THEN [state |-> st, log |-> log]
    ELSE LET key == Head(changes).key
             value == Head(changes).value
         IN FlushEachCommitAll(Tail(changes), map, Set(st, key, value),
                               Append(log, [fn |-> IF key \in DOMAIN map THEN map[key] ELSE "none",
                                            key |-> key, newValue |-> value,
                                            oldValue |-> Get(st, key)]))

\* the flush callback: each(this.nextStateChanges, ...) calls the handler with
\* (value, this.state[key]) and then commits the value, for keys that have a handler;
\* a key without a handler is passed over ("none" in the log)
RECURSIVE FlushEach(_, _, _, _)
FlushEach(changes, map, st, log) ==
    IF changes = <<>> THEN [state |-> st, log |-> log]
    ELSE LET key == Head(changes).key
             value == Head(changes).value
         IN IF key \in DOMAIN map
            THEN FlushEach(Tail(changes), map, Set(st, key, value),
                           Append(log, [fn |-> map[key], key |-> key,
                                        newValue |-> value, oldValue |-> Get(st, key)]))
            ELSE FlushEach(Tail(changes), map, st,
                           Append(log, [fn |-> "none", key |-> key,
                                        newValue |-> value, oldValue |-> Get(st, key)]))

\* applyState(nextState) on the fields s of a store whose committed state is st
applyState(s, st, nextState) ==
    IF ~isObject(nextState) THEN s
    ELSE LET armed == STATETIMEOUTAPPLY(s.applierTimeout, s.timers, s.timerSeq)
         IN [nextStateChanges |-> ApplyEach(nextState.o, st, s.nextStateChanges),
             applierTimeout |-> armed.applierTimeout,
             timers |-> armed.timers,
             timerSeq |-> armed.timerSeq]

\* variant: a function given as nextState is passed to applyState as it is
listenerStatic(s, st, nextState) == applyState(s, st, nextState)

\* the listener of bindStateEvent: applyState(nextState(event, self.state)) when nextState
\* is a function, applyState(nextState) otherwise
listener(s, st, nextState) ==
    IF isType(nextState, "Function")
    THEN applyState(s, st, Return(nextState, st))
    ELSE applyState(s, st, nextState)

\* the host calls the listeners of an element in the order they were attached
RECURSIVE DispatchEach(_, _, _)
DispatchEach(ls, s, st) ==
    IF ls = <<>> THEN s
    ELSE DispatchEach(Tail(ls), listener(s, st, Head(ls).nextState), st)

\* element.addEventListener(eventName, eventfunc): a listener already attached to the
\* element is not attached again
addEventListener(ls, element, eventfunc) ==
    IF \E i \in DOMAIN ls[element] : ls[element][i] = eventfunc THEN ls
    ELSE [ls EXCEPT ![element] = Append(@, eventfunc)]

\* each(group, _ATTACH(eventName, eventfunc))
RECURSIVE AttachEach(_, _, _)
AttachEach(group, ls, eventfunc) ==
    IF group = <<>> THEN ls
    ELSE AttachEach(Tail(group), addEventListener(ls, Head(group), eventfunc), eventfunc)

\* ---- bindFormState: the handlers ----

\* changeFunction && changeFunction(memberName): the call, with the member as the
\* function finds it
Notify(func, st, memberName) ==
    IF Falsy(func) THEN <<>>
    ELSE <<[name |-> memberName, seen |-> Member(st, memberName)]>>

\* variant: the handler tests element.selected, which an input does not have
CHECKBOXEVENTSelected(field, dom, st, func) ==
    IF Falsy(field.name) THEN [state |-> st, log |-> <<>>]
    ELSE LET next == Delete(st, field.name)
         IN [state |-> next, log |-> Notify(func, next, field.name)]

CHECKBOXEVENT(field, dom, st, func) ==
    IF Falsy(field.name) THEN [state |-> st, log |-> <<>>]
    ELSE LET next == IF dom.checked
                     THEN Set(st, field.name, StringValue(dom.value))
                     ELSE Delete(st, field.name)
         IN [state |-> next, log |-> Notify(func, next, field.name)]

\* variant: the handler does not test the name
TEXTEVENTAnyName(field, dom, st, func) ==
    LET next == Set(st, field.name, StringValue(dom.value))
    IN [state |-> next, log |-> Notify(func, next, field.name)]

\* variant: changeFunction is called before the member is written
TEXTEVENTNotifyFirst(field, dom, st, func) ==
    IF Falsy(field.name) THEN [state |-> st, log |-> <<>>]
    ELSE [state |-> Set(st, field.name, StringValue(dom.value)),
          log |-> Notify(func, st, field.name)]

TEXTEVENT(field, dom, st, func) ==
    IF Falsy(field.name) THEN [state |-> st, log |-> <<>>]
    ELSE LET next == Set(st, field.name, StringValue(dom.value))
         IN [state |-> next, log |-> Notify(func, next, field.name)]

SELECTEVENT(field, dom, st, func) ==
    IF Falsy(field.name) THEN [state |-> st, log |-> <<>>]
    ELSE LET multi == ~Falsy(field.multiple)
             next == IF multi
                     THEN Set(st, field.name, ArrayValue(SelectedValues(1, dom.selected)))
                     ELSE Set(st, field.name, StringValue(dom.value))
         IN [state |-> next, log |-> Notify(func, next, field.name)]

\* the listeners that the loop over formElements attaches to one field
AttachedTo(field) ==
    IF field.tagName = "INPUT"
    THEN IF field.type = "checkbox" \/ field.type = "radio"
         THEN {[field |-> field.id, event |-> "change", func |-> "CHECKBOXEVENT"]}
         ELSE IF field.type # "button" /\ field.type # "submit"
         THEN {[field |-> field.id, event |-> "change", func |-> "TEXTEVENT"],
               [field |-> field.id, event |-> "keyup", func |-> "TEXTEVENT"]}
         ELSE {}
    ELSE IF field.tagName = "TEXTAREA"
    THEN {[field |-> field.id, event |-> "change", func |-> "TEXTEVENT"],
          [field |-> field.id, event |-> "keyup", func |-> "TEXTEVENT"]}
    ELSE IF field.tagName = "SELECT"
    THEN {[field |-> field.id, event |-> "change", func |-> "SELECTEVENT"]}
    ELSE {}

\* for (let i = 0; i < formElements.length; i++) ...
RECURSIVE AttachAll(_)
AttachAll(items) ==
    IF items = <<>> THEN {} ELSE AttachedTo(Head(items)) \cup AttachAll(Tail(items))

\* ---- the state machine ----

Init ==
    /\ phase = "new"
    /\ stateApplierFunctionMap = EmptyObj
    /\ state = EmptyObj
    /\ nextStateChanges = <<>>
    /\ applierTimeout = NullTimeout
    /\ timers = {}
    /\ timerSeq = 0
    /\ flushLog = <<>>
    /\ result = "none"
    /\ lastApplied = NoneApplied
    /\ lastStage = NoWindow
    /\ flushedStage = NoWindow
    /\ unhandledStage = NoneApplied
    /\ staging = NoStagings
    /\ flushedStaging = NoStagings
    /\ listeners = [e \in Elements |-> <<>>]
    /\ bindSeq = 0
    /\ formTarget = "none"
    /\ formReturn = "none"
    /\ formState = EmptyObj
    /\ formListeners = {}
    /\ changeFunction = Undefined
    /\ changeLog = <<>>
    /\ lastHandler = "none"

\* variant: the constructor does not test its argument
ConstructUnchecked(funcMap) ==
    /\ phase \in {"new", "failed"}
    /\ UNCHANGED <<timers, timerSeq>>
    /\ flushLog' = <<>>
    /\ phase' = "ready"
    /\ result' = "this"
    /\ stateApplierFunctionMap' = ConstructEach(funcMap.o, EmptyObj)
    /\ state' = EmptyObj
    /\ nextStateChanges' = <<>>
    /\ applierTimeout' = NullTimeout

\* new AppState(funcMap) / JState.createAppState(funcMap)
Construct(funcMap) ==
    /\ phase \in {"new", "failed"}
    /\ UNCHANGED <<timers, timerSeq>>
    /\ flushLog' = <<>>
    /\ IF ~isObject(funcMap)
       THEN /\ phase' = "failed"
            /\ result' = "throw"
            /\ UNCHANGED <<stateApplierFunctionMap, state, nextStateChanges, applierTimeout>>
       ELSE /\ phase' = "ready"
            /\ result' = "this"
            /\ stateApplierFunctionMap' = ConstructEach(funcMap.o, EmptyObj)
            /\ state' = EmptyObj
            /\ nextStateChanges' = <<>>
            /\ applierTimeout' = NullTimeout

\* store.addHandler(name, func)
AddHandler(name, func) ==
    /\ phase = "ready"
    /\ UNCHANGED <<phase, state, nextStateChanges, applierTimeout, timers, timerSeq>>
    /\ flushLog' = <<>>
    /\ result' = "this"
    /\ stateApplierFunctionMap' = addHandler(stateApplierFunctionMap, name, func)

\* store.removeHandler(name)
RemoveHandler(name) ==
    /\ phase = "ready"
    /\ UNCHANGED <<phase, state, nextStateChanges, applierTimeout, timers, timerSeq>>
    /\ flushLog' = <<>>
    /\ result' = "this"
    /\ stateApplierFunctionMap' = removeHandler(stateApplierFunctionMap, name)

\* store.setState(nextState)
SetState(nextState) ==
    /\ phase = "ready"
    /\ UNCHANGED <<phase, stateApplierFunctionMap, nextStateChanges, applierTimeout, timers,
                   timerSeq>>
    /\ flushLog' = <<>>
    /\ result' = IF ~isObject(nextState) THEN "undefined" ELSE "this"
    /\ state' = IF ~isObject(nextState) THEN state ELSE SetEach(nextState.o, state)

\* store.applyState(nextState)
ApplyState(nextState) ==
    /\ phase = "ready"
    /\ UNCHANGED <<phase, stateApplierFunctionMap, state>>
    /\ flushLog' = <<>>
    /\ result' = IF ~isObject(nextState) THEN "undefined" ELSE "this"
    /\ IF ~isObject(nextState)
       THEN UNCHANGED <<nextStateChanges, applierTimeout, timers, timerSeq>>
       ELSE LET armed == STATETIMEOUTAPPLY(applierTimeout, timers, timerSeq)
            IN /\ timerSeq < MaxTimers
               /\ applierTimeout' = armed.applierTimeout
               /\ timers' = armed.timers
               /\ timerSeq' = armed.timerSeq
               /\ nextStateChanges' = ApplyEach(nextState.o, state, nextStateChanges)

\* variant: the handlers of the named members are called at once, within the call
TouchStateImmediate(names) ==
    /\ phase = "ready"
    /\ timerSeq < MaxTimers
    /\ UNCHANGED <<phase, stateApplierFunctionMap, state, nextStateChanges, applierTimeout,
                   timers, timerSeq>>
    /\ result' = "this"
    /\ LET handled == SelectSeq(names, LAMBDA n : n \in DOMAIN stateApplierFunctionMap)
       IN flushLog' = [i \in DOMAIN handled |->
                          [fn |-> stateApplierFunctionMap[handled[i]], key |-> handled[i],
                           newValue |-> Get(state, handled[i]),
                           oldValue |-> Get(state, handled[i])]]

\* store.touchState(memberName...)
TouchState(names) ==
    /\ phase = "ready"
    /\ timerSeq < MaxTimers
    /\ UNCHANGED <<phase, stateApplierFunctionMap, state>>
    /\ flushLog' = <<>>
    /\ result' = "this"
    /\ LET armed == STATETIMEOUTAPPLY(applierTimeout, timers, timerSeq)
       IN /\ applierTimeout' = armed.applierTimeout
          /\ timers' = armed.timers
          /\ timerSeq' = armed.timerSeq
          /\ nextStateChanges' = TouchEach(names, stateApplierFunctionMap, state, nextStateChanges)

\* variant: the callback leaves the pending changes in place
TimerFireKeepPending(id) ==
    /\ phase = "ready"
    /\ id \in timers
    /\ timers' = timers \ {id}
    /\ UNCHANGED <<phase, stateApplierFunctionMap, applierTimeout, timerSeq, nextStateChanges>>
    /\ result' = "undefined"
    /\ LET flushed == FlushEach(nextStateChanges, stateApplierFunctionMap, state, <<>>)
       IN /\ state' = flushed.state
          /\ flushLog' = flushed.log

\* variant: the flush calls the handler the key had when it was staged
TimerFireStagedHandlers(id) ==
    /\ phase = "ready"
    /\ id \in timers
    /\ timers' = timers \ {id}
    /\ UNCHANGED <<phase, stateApplierFunctionMap, applierTimeout, timerSeq>>
    /\ result' = "undefined"
    /\ LET staged == {k \in Keys : staging[k] \notin {"unstaged", "none"}}
           flushed == FlushEach(nextStateChanges, [k \in staged |-> staging[k]], state, <<>>)
       IN /\ state' = flushed.state
          /\ flushLog' = flushed.log
    /\ nextStateChanges' = <<>>

\* the host runs the callback given to setTimeout for timer id
TimerFire(id) ==
    /\ phase = "ready"
    /\ id \in timers
    /\ timers' = timers \ {id}
    /\ UNCHANGED <<phase, stateApplierFunctionMap, applierTimeout, timerSeq>>
    /\ result' = "undefined"
    /\ LET flushed == FlushEach(nextStateChanges, stateApplierFunctionMap, state, <<>>)
       IN /\ state' = flushed.state
          /\ flushLog' = flushed.log
    /\ nextStateChanges' = <<>>

\* store.bindStateEvent(eventName, selection, nextState), for one event name
BindStateEvent(selection, nextState) ==
    /\ phase = "ready"
    /\ bindSeq < MaxBindings
    /\ UNCHANGED <<phase, stateApplierFunctionMap, state, nextStateChanges, applierTimeout,
                   timers, timerSeq>>
    /\ flushLog' = <<>>
    /\ result' = "this"
    /\ bindSeq' = bindSeq + 1
    /\ LET group == IF isType(selection, "String")
                    THEN querySelectorAll(selection.selector)
                    ELSE selection.elements
       IN listeners' = AttachEach(group, listeners, [id |-> bindSeq + 1, nextState |-> nextState])

\* the event fires on an element: the host calls the listeners attached to it
DispatchEvent(element) ==
    /\ phase = "ready"
    /\ listeners[element] # <<>>
    /\ UNCHANGED <<phase, stateApplierFunctionMap, state, listeners, bindSeq>>
    /\ flushLog' = <<>>
    /\ result' = "undefined"
    /\ LET s == DispatchEach(listeners[element],
                             [nextStateChanges |-> nextStateChanges,
                              applierTimeout |-> applierTimeout,
                              timers |-> timers, timerSeq |-> timerSeq],
                             state)
       IN /\ s.timerSeq <= MaxTimers
          /\ nextStateChanges' = s.nextStateChanges
          /\ applierTimeout' = s.applierTimeout
          /\ timers' = s.timers
          /\ timerSeq' = s.timerSeq

\* ---- history of the coalescing window (what the calls asked for) ----

\* the keys an applyState(o) call staged, judged against the committed state st
StagedByApply(o, st) == {k \in PairKeys(o) : Get(st, k) # PairGet(o, k)}

\* the keys a touchState(names...) call staged
StagedByTouch(names, map) == {names[i] : i \in DOMAIN names} \cap DOMAIN map

HistoryOfCall == UNCHANGED <<lastApplied, lastStage>> /\ flushedStage' = NoWindow

HistoryOfApply(nextState) ==
    IF ~isObject(nextState) THEN HistoryOfCall
    ELSE /\ lastApplied' = [k \in Keys |->
                              IF k \in PairKeys(nextState.o)
                              THEN PairGet(nextState.o, k) ELSE lastApplied[k]]
         /\ lastStage' = [k \in Keys |->
                              IF k \in StagedByApply(nextState.o, state)
                              THEN [by |-> "apply", value |-> PairGet(nextState.o, k),
                                    old |-> Get(state, k)]
                              ELSE lastStage[k]]
         /\ flushedStage' = NoWindow

HistoryOfTouch(names) ==
    /\ lastStage' = [k \in Keys |->
                         IF k \in StagedByTouch(names, stateApplierFunctionMap)
                         THEN [by |-> "touch", value |-> Get(state, k), old |-> Get(state, k)]
                         ELSE lastStage[k]]
    /\ flushedStage' = NoWindow
    /\ UNCHANGED lastApplied

HistoryOfFlush ==
    /\ flushedStage' = lastStage
    /\ lastStage' = NoWindow
    /\ lastApplied' = NoneApplied

\* the store with the history of the window
Next ==
    \/ \E funcMap \in FuncMapArgs : Construct(funcMap) /\ HistoryOfCall /\ UNCHANGED rest
    \/ \E name \in Keys, func \in FuncValues : AddHandler(name, func) /\ HistoryOfCall /\ UNCHANGED rest
    \/ \E name \in Keys : RemoveHandler(name) /\ HistoryOfCall /\ UNCHANGED rest
    \/ \E nextState \in StateArgs : SetState(nextState) /\ HistoryOfCall /\ UNCHANGED rest
    \/ \E nextState \in StateArgs : ApplyState(nextState) /\ HistoryOfApply(nextState) /\ UNCHANGED rest
    \/ \E names \in TouchArgs : TouchState(names) /\ HistoryOfTouch(names) /\ UNCHANGED rest
    \/ \E id \in TimerIds : TimerFire(id) /\ HistoryOfFlush /\ UNCHANGED rest

Spec == Init /\ [][Next]_vars

\* the store alone: the same operations, the history left untouched
NextStore ==
    \/ \E funcMap \in FuncMapArgs : Construct(funcMap) /\ UNCHANGED <<history, rest>>
    \/ \E name \in Keys, func \in FuncValues : AddHandler(name, func) /\ UNCHANGED <<history, rest>>
    \/ \E name \in Keys : RemoveHandler(name) /\ UNCHANGED <<history, rest>>
    \/ \E nextState \in StateArgs : SetState(nextState) /\ UNCHANGED <<history, rest>>
    \/ \E nextState \in StateArgs : ApplyState(nextState) /\ UNCHANGED <<history, rest>>
    \/ \E names \in TouchArgs : TouchState(names) /\ UNCHANGED <<history, rest>>
    \/ \E id \in TimerIds : TimerFire(id) /\ UNCHANGED <<history, rest>>

SpecStore == Init /\ [][NextStore]_vars

\* ---- calls made for a key that has no handler ----

HandlerlessOfCall == UNCHANGED unhandledStage

HandlerlessOfConstruct == unhandledStage' = NoneApplied

\* applyState stages a changed key whether or not the key has a handler
HandlerlessOfApply(nextState) ==
    IF ~isObject(nextState) THEN UNCHANGED unhandledStage
    ELSE unhandledStage' = [k \in Keys |->
             IF k \in StagedByApply(nextState.o, state)
             THEN (IF k \in DOMAIN stateApplierFunctionMap THEN "none"
                   ELSE PairGet(nextState.o, k))
             ELSE unhandledStage[k]]

\* touchState stages only keys that have a handler
HandlerlessOfTouch(names) ==
    unhandledStage' = [k \in Keys |->
        IF k \in StagedByTouch(names, stateApplierFunctionMap) THEN "none" ELSE unhandledStage[k]]

HandlerlessOfFlush == unhandledStage' = NoneApplied

\* the store with the record of the values staged for keys without a handler
NextHandlerless ==
    \/ \E funcMap \in FuncMapArgs :
         Construct(funcMap) /\ HandlerlessOfConstruct /\ UNCHANGED <<history, stagings, bindings, form>>
    \/ \E name \in Keys, func \in FuncValues :
         AddHandler(name, func) /\ HandlerlessOfCall /\ UNCHANGED <<history, stagings, bindings, form>>
    \/ \E name \in Keys : RemoveHandler(name) /\ HandlerlessOfCall /\ UNCHANGED <<history, stagings, bindings, form>>
    \/ \E nextState \in StateArgs :
         SetState(nextState) /\ HandlerlessOfCall /\ UNCHANGED <<history, stagings, bindings, form>>
    \/ \E nextState \in StateArgs :
         ApplyState(nextState) /\ HandlerlessOfApply(nextState) /\ UNCHANGED <<history, stagings, bindings, form>>
    \/ \E names \in TouchArgs :
         TouchState(names) /\ HandlerlessOfTouch(names) /\ UNCHANGED <<history, stagings, bindings, form>>
    \/ \E id \in TimerIds : TimerFire(id) /\ HandlerlessOfFlush /\ UNCHANGED <<history, stagings, bindings, form>>

SpecHandlerless == Init /\ [][NextHandlerless]_vars

\* ---- the store with elements bound to it ----

\* the handler maps of the stores that elements are bound to
BoundFuncMaps ==
    {[t |-> "Object", o |-> <<>>],
     [t |-> "Object", o |-> <<[key |-> "a", value |-> "fn1"]>>]}

NextBind ==
    \/ \E funcMap \in BoundFuncMaps :
         Construct(funcMap) /\ UNCHANGED <<history, unhandledStage, stagings, bindings, form>>
    \/ \E selection \in Selections, nextState \in BindPayloads :
         BindStateEvent(selection, nextState) /\ UNCHANGED <<history, unhandledStage, stagings, form>>
    \/ \E element \in Elements :
         DispatchEvent(element) /\ UNCHANGED <<history, unhandledStage, stagings, form>>
    \/ \E id \in TimerIds : TimerFire(id) /\ UNCHANGED <<history, rest>>

SpecBind == Init /\ [][NextBind]_vars

\* ---- bindFormState ----

\* JState.bindFormState(formElements, targetObject, changeFunc)
BindFormState(formElements, targetObject, changeFunc) ==
    /\ formTarget = "none"
    /\ changeLog' = <<>>
    /\ lastHandler' = "none"
    /\ IF isBlank(formElements)
       THEN /\ formReturn' = "undefined"
            /\ UNCHANGED <<formTarget, formState, formListeners, changeFunction>>
       ELSE /\ formTarget' = IF isObject(targetObject) THEN "targetObject" ELSE "newObject"
            /\ formState' = IF isObject(targetObject) THEN targetObject.m ELSE EmptyObj
            /\ changeFunction' = changeFunc
            /\ formListeners' = AttachAll(formElements.items)
            /\ formReturn' = formTarget'

\* an event fires on a field in DOM state dom: the host calls the listener attached to
\* the field for the event, if there is one
FieldEvent(field, eventName, dom) ==
    /\ formReturn # "none"
    /\ UNCHANGED <<formTarget, formReturn, formListeners, changeFunction>>
    /\ LET attached == {l \in formListeners : l.field = field.id /\ l.event = eventName}
       IN IF attached = {}
          THEN /\ lastHandler' = "none"
               /\ changeLog' = <<>>
               /\ UNCHANGED formState
          ELSE LET func == (CHOOSE l \in attached : TRUE).func
                   done == IF func = "CHECKBOXEVENT"
                           THEN CHECKBOXEVENT(field, dom, formState, changeFunction)
                           ELSE IF func = "TEXTEVENT"
                           THEN TEXTEVENT(field, dom, formState, changeFunction)
                           ELSE SELECTEVENT(field, dom, formState, changeFunction)
               IN /\ lastHandler' = func
                  /\ formState' = done.state
                  /\ changeLog' = done.log

NextForm ==
    \/ /\ formTarget = "none"
       /\ \E formElements \in FormElementArgs, targetObject \in TargetArgs,
             changeFunc \in ChangeFuncArgs :
               /\ BindFormState(formElements, targetObject, changeFunc)
               /\ UNCHANGED <<store, history, unhandledStage, stagings, bindings>>
    \/ \E field \in Fields, eventName \in EventNames :
          \E dom \in DomStates(field) :
            /\ FieldEvent(field, eventName, dom)
            /\ UNCHANGED <<store, history, unhandledStage, stagings, bindings>>

SpecForm == Init /\ [][NextForm]_vars

\* the host runs every callback it has scheduled: a timer that stays scheduled fires
Flush == \E id \in TimerIds : TimerFire(id) /\ UNCHANGED <<history, rest>>

SpecLive == SpecStore /\ WF_vars(Flush)

\* ---- the handler a key had when its pending change was staged ----

\* the handler registered for k, "none" when there is none
HandlerOf(map, k) == IF k \in DOMAIN map THEN map[k] ELSE "none"

StagingOfCall == UNCHANGED staging /\ flushedStaging' = NoStagings

StagingOfApply(nextState) ==
    IF ~isObject(nextState) THEN StagingOfCall
    ELSE /\ staging' = [k \in Keys |->
                           IF k \in StagedByApply(nextState.o, state)
                           THEN HandlerOf(stateApplierFunctionMap, k) ELSE staging[k]]
         /\ flushedStaging' = NoStagings

StagingOfTouch(names) ==
    /\ staging' = [k \in Keys |->
                      IF k \in StagedByTouch(names, stateApplierFunctionMap)
                      THEN HandlerOf(stateApplierFunctionMap, k) ELSE staging[k]]
    /\ flushedStaging' = NoStagings

StagingOfFlush == flushedStaging' = staging /\ staging' = NoStagings

\* the store with the record of the handlers at staging time
NextStaging ==
    \/ \E funcMap \in FuncMapArgs :
         Construct(funcMap) /\ StagingOfCall /\ UNCHANGED <<history, unhandledStage, bindings, form>>
    \/ \E name \in Keys, func \in Fns :
         AddHandler(name, func) /\ StagingOfCall /\ UNCHANGED <<history, unhandledStage, bindings, form>>
    \/ \E name \in Keys :
         RemoveHandler(name) /\ StagingOfCall /\ UNCHANGED <<history, unhandledStage, bindings, form>>
    \/ \E nextState \in StateObjects :
         SetState(nextState) /\ StagingOfCall /\ UNCHANGED <<history, unhandledStage, bindings, form>>
    \/ \E nextState \in StateObjects :
         ApplyState(nextState) /\ StagingOfApply(nextState)
            /\ UNCHANGED <<history, unhandledStage, bindings, form>>
    \/ \E names \in TouchArgs :
         TouchState(names) /\ StagingOfTouch(names)
            /\ UNCHANGED <<history, unhandledStage, bindings, form>>
    \/ \E id \in TimerIds :
         TimerFire(id) /\ StagingOfFlush /\ UNCHANGED <<history, unhandledStage, bindings, form>>

SpecStaging == Init /\ [][NextStaging]_vars

\* ---- the store without touchState: every pending change is staged by applyState ----

NextApplyOnly ==
    \/ \E funcMap \in FuncMapArgs : Construct(funcMap) /\ UNCHANGED <<history, rest>>
    \/ \E name \in Keys, func \in FuncValues : AddHandler(name, func) /\ UNCHANGED <<history, rest>>
    \/ \E name \in Keys : RemoveHandler(name) /\ UNCHANGED <<history, rest>>
    \/ \E nextState \in StateArgs : SetState(nextState) /\ UNCHANGED <<history, rest>>
    \/ \E nextState \in StateArgs : ApplyState(nextState) /\ UNCHANGED <<history, rest>>
    \/ \E id \in TimerIds : TimerFire(id) /\ UNCHANGED <<history, rest>>

SpecApplyOnly == Init /\ [][NextApplyOnly]_vars

\* ---- handlers that throw, and handlers that call the store ----

\* the handler throws when the flush calls it
Throws(fn) == fn = "fnThrow"

\* the handler calls store.applyState(CallArg) and returns
CallsStore(fn) == fn = "fnApplyA"

CallArg == [t |-> "Object", o |-> <<[key |-> "a", value |-> "v2"]>>]

\* handler maps whose functions return, throw, or call the store
HandlerMaps ==
    {[t |-> "Object", o |-> o] :
        o \in {x \in PairSeqs(Keys, {"fn1"} \cup CallerFns) : DistinctKeys(x)}}

\* the property names for (x in o) enumerates, in order
KeysInOrder(o) == [i \in DOMAIN o |-> o[i].key]

\* the fields of s that applyState works on
CallFields(s) ==
    [nextStateChanges |-> s.nextStateChanges, applierTimeout |-> s.applierTimeout,
     timers |-> s.timers, timerSeq |-> s.timerSeq]

\* what the flush writes to its log when it reaches key: the handler it finds, and the
\* arguments (value, this.state[key]) it has for it
LogEntry(map, key, s) ==
    [fn |-> IF key \in DOMAIN map THEN map[key] ELSE "none", key |-> key,
     newValue |-> PairGet(s.nextStateChanges, key), oldValue |-> Get(s.state, key),
     staged |-> {}]

\* a key without a handler is passed over
PassedOver(map, key, s) == [s EXCEPT !.log = Append(@, LogEntry(map, key, s))]

\* the handler of key throws: nothing more is done
Thrown(map, key, s) == [s EXCEPT !.log = Append(@, LogEntry(map, key, s)), !.threw = TRUE]

\* the keys a handler that calls store.applyState(CallArg) stages by it
StagedByHandler(fn, st) == IF CallsStore(fn) THEN StagedByApply(CallArg.o, st) ELSE {}

\* variant: the value is committed before the handler is called
ReturnedAfterCommit(map, key, s) ==
    LET value == PairGet(s.nextStateChanges, key)
        st == Set(s.state, key, value)
        called == IF CallsStore(map[key]) THEN applyState(CallFields(s), st, CallArg)
                  ELSE CallFields(s)
    IN [nextStateChanges |-> called.nextStateChanges,
        applierTimeout |-> called.applierTimeout,
        timers |-> called.timers,
        timerSeq |-> called.timerSeq,
        state |-> st,
        log |-> Append(s.log, [LogEntry(map, key, [s EXCEPT !.state = st])
                                  EXCEPT !.staged = StagedByHandler(map[key], st)]),
        threw |-> s.threw]

\* the handler of key is called with (value, this.state[key]) and returns, having called
\* the store or not; then this.state[key] = value
Returned(map, key, s) ==
    LET called == IF CallsStore(map[key]) THEN applyState(CallFields(s), s.state, CallArg)
                  ELSE CallFields(s)
    IN [nextStateChanges |-> called.nextStateChanges,
        applierTimeout |-> called.applierTimeout,
        timers |-> called.timers,
        timerSeq |-> called.timerSeq,
        state |-> Set(s.state, key, PairGet(s.nextStateChanges, key)),
        log |-> Append(s.log, [LogEntry(map, key, s)
                                  EXCEPT !.staged = StagedByHandler(map[key], s.state)]),
        threw |-> s.threw]

\* variant: the callback does not empty the pending changes
RECURSIVE FlushCallingKeepPending(_, _, _)
FlushCallingKeepPending(names, map, s) ==
    IF names = <<>> THEN s
    ELSE IF Head(names) \notin DOMAIN map
    THEN FlushCallingKeepPending(Tail(names), map, PassedOver(map, Head(names), s))
    ELSE IF Throws(map[Head(names)]) THEN Thrown(map, Head(names), s)
    ELSE FlushCallingKeepPending(Tail(names), map, Returned(map, Head(names), s))

\* variant: a handler that throws is caught, and the flush goes on with the next key
RECURSIVE FlushCallingIsolated(_, _, _)
FlushCallingIsolated(names, map, s) ==
    IF names = <<>> THEN [s EXCEPT !.nextStateChanges = <<>>]
    ELSE IF Head(names) \notin DOMAIN map
    THEN FlushCallingIsolated(Tail(names), map, PassedOver(map, Head(names), s))
    ELSE IF Throws(map[Head(names)])
    THEN FlushCallingIsolated(Tail(names), map, Thrown(map, Head(names), s))
    ELSE FlushCallingIsolated(Tail(names), map, Returned(map, Head(names), s))

\* the flush callback, with handlers of any kind. each() enumerates the names the pending
\* object has when the loop starts and reads list[x] when it reaches x; a handler that
\* throws ends the callback there, before the commit and before
\* this.nextStateChanges = {}
RECURSIVE FlushCalling(_, _, _)
FlushCalling(names, map, s) ==
    IF names = <<>> THEN [s EXCEPT !.nextStateChanges = <<>>]
    ELSE IF Head(names) \notin DOMAIN map
    THEN FlushCalling(Tail(names), map, PassedOver(map, Head(names), s))
    ELSE IF Throws(map[Head(names)]) THEN Thrown(map, Head(names), s)
    ELSE FlushCalling(Tail(names), map, Returned(map, Head(names), s))

\* the host runs the callback given to setTimeout for timer id, with handlers of any kind
TimerFireCalling(id) ==
    /\ phase = "ready"
    /\ id \in timers
    /\ UNCHANGED <<phase, stateApplierFunctionMap>>
    /\ LET flushed == FlushCalling(KeysInOrder(nextStateChanges), stateApplierFunctionMap,
                                   [nextStateChanges |-> nextStateChanges,
                                    applierTimeout |-> applierTimeout,
                                    timers |-> timers \ {id},
                                    timerSeq |-> timerSeq,
                                    state |-> state,
                                    log |-> <<>>,
                                    threw |-> FALSE])
       IN /\ flushed.timerSeq <= MaxTimers
          /\ nextStateChanges' = flushed.nextStateChanges
          /\ applierTimeout' = flushed.applierTimeout
          /\ timers' = flushed.timers
          /\ timerSeq' = flushed.timerSeq
          /\ state' = flushed.state
          /\ flushLog' = flushed.log
          /\ result' = IF flushed.threw THEN "throw" ELSE "undefined"

NextCalling ==
    \/ \E funcMap \in HandlerMaps : Construct(funcMap) /\ UNCHANGED <<history, rest>>
    \/ \E nextState \in StateArgs : SetState(nextState) /\ UNCHANGED <<history, rest>>
    \/ \E nextState \in StateArgs : ApplyState(nextState) /\ UNCHANGED <<history, rest>>
    \/ \E names \in TouchArgs : TouchState(names) /\ UNCHANGED <<history, rest>>
    \/ \E id \in TimerIds : TimerFireCalling(id) /\ UNCHANGED <<history, rest>>

SpecCalling == Init /\ [][NextCalling]_vars

\* ---- reading the flush log ----

\* the positions of the log at which the handler of key k was invoked
InvokedFor(log, k) == {i \in DOMAIN log : log[i].key = k /\ log[i].fn # "none"}

\* the keys the flush iterated over
Processed(log) == {log[i].key : i \in DOMAIN log}

\* the keys staged by some call of the current window
WindowKeys == {k \in Keys : lastStage[k].by # "none"}

\* key k is the same in st1 and st2: present in both or in neither, with the same value
SameEntry(st1, st2, k) == (k \in DOMAIN st1) = (k \in DOMAIN st2) /\ Get(st1, k) = Get(st2, k)

\* every key of a non-empty object o has the value committed in st
AllEqual(o, st) == o # <<>> /\ \A i \in DOMAIN o : Get(st, o[i].key) = o[i].value

\* ---- C1 ----
\* C1 (as claimed): a flush invokes the handler of each key at most once, and for a key
\* staged by applyState in a window in which its committed value did not change, the
\* value the handler receives is the one the last applyState call of the window gave
\* for that key.
C1_LastValueWins ==
    [][\A id \in TimerIds : TimerFire(id) =>
         \A k \in Keys :
            /\ Cardinality(InvokedFor(flushLog', k)) <= 1
            /\ (lastStage[k].by = "apply" /\ Get(state, k) = lastStage[k].old)
                 => \A i \in InvokedFor(flushLog', k) : flushLog'[i].newValue = lastApplied[k]]_vars

C4_NetChangeOnly ==
    [][\A id \in TimerIds : TimerFire(id) =>
         \A k \in Keys :
            (/\ lastStage[k].by = "apply"
             /\ lastApplied[k] = lastStage[k].old
             /\ Get(state, k) = lastStage[k].old)
              => /\ InvokedFor(flushLog', k) = {}
                 /\ Get(state', k) = Get(state, k)]_vars

\* ---- C5 ----
\* C5: at a flush, a key last staged by touchState, whose handler is registered and whose
\* committed value is the one it had when touched, has its handler invoked exactly once,
\* with newValue and oldValue both the committed value, and its committed value is the
\* same after the flush.
C5_TouchForcesNotification ==
    [][\A id \in TimerIds : TimerFire(id) =>
         \A k \in Keys :
            (/\ lastStage[k].by = "touch"
             /\ k \in DOMAIN stateApplierFunctionMap
             /\ Get(state, k) = lastStage[k].old)
              => /\ Cardinality(InvokedFor(flushLog', k)) = 1
                 /\ \A i \in InvokedFor(flushLog', k) :
                      /\ flushLog'[i].fn = stateApplierFunctionMap[k]
                      /\ flushLog'[i].newValue = Get(state, k)
                      /\ flushLog'[i].oldValue = Get(state, k)
                 /\ Get(state', k) = Get(state, k)]_vars

\* a flush has notified a touched key whose committed value is a real value
C5_Witness ==
    \E i \in DOMAIN flushLog :
        /\ flushedStage[flushLog[i].key].by = "touch"
        /\ flushLog[i].fn # "none"
        /\ flushLog[i].newValue \in Values
        /\ flushLog[i].newValue = flushLog[i].oldValue
        /\ Get(state, flushLog[i].key) = flushLog[i].newValue

C7_SetStateFrame ==
    [][\A nextState \in StateObjects : SetState(nextState) =>
         /\ \A k \in PairKeys(nextState.o) :
              k \in DOMAIN state' /\ state'[k] = PairGet(nextState.o, k)
         /\ \A k \in (Keys \cup DOMAIN state \cup DOMAIN state') \ PairKeys(nextState.o) :
              SameEntry(state', state, k)
         /\ nextStateChanges' = nextStateChanges
         /\ stateApplierFunctionMap' = stateApplierFunctionMap
         /\ applierTimeout' = applierTimeout
         /\ timers' = timers
         /\ flushLog' = <<>>]_vars

\* setState has written both keys of a store on which no flush was ever armed
C7_Witness ==
    /\ timerSeq = 0
    /\ result = "this"
    /\ DOMAIN state = Keys
    /\ state["a"] # state["b"]

\* ---- C8 ----
\* C8: setState or applyState given something that is not a plain object does not throw
\* and leaves state, the pending changes, the handlers, the armed timer and the
\* scheduled timers as they were: no flush is armed.
C8_NonObjectIgnored ==
    [][\A nextState \in NonObjects : (SetState(nextState) \/ ApplyState(nextState)) =>
         /\ result' = "undefined"
         /\ state' = state
         /\ nextStateChanges' = nextStateChanges
         /\ stateApplierFunctionMap' = stateApplierFunctionMap
         /\ applierTimeout' = applierTimeout
         /\ timers' = timers
         /\ timerSeq' = timerSeq]_vars

\* a call was ignored on a store that holds state and never armed a flush
C8_Witness ==
    /\ phase = "ready"
    /\ result = "undefined"
    /\ timerSeq = 0
    /\ state # EmptyObj

\* ---- C9 ----
\* C9: constructing with anything but a plain object throws with no handler registered
\* and no field initialised; constructing with a plain object does not throw and gives a
\* store with empty state, no pending changes and no flush armed or scheduled.
C9_Construction ==
    [][\A funcMap \in FuncMapArgs : Construct(funcMap) =>
         IF funcMap.t # "Object"
         THEN /\ result' = "throw"
              /\ phase' = "failed"
              /\ stateApplierFunctionMap' = EmptyObj
              /\ state' = EmptyObj
              /\ nextStateChanges' = <<>>
              /\ applierTimeout' = NullTimeout
         ELSE /\ result' = "this"
              /\ phase' = "ready"
              /\ state' = EmptyObj
              /\ nextStateChanges' = <<>>
              /\ applierTimeout' = NullTimeout
              /\ timers' = {}]_vars

\* a construction has thrown
C9_Witness ==
    /\ phase = "failed"
    /\ result = "throw"
    /\ stateApplierFunctionMap = EmptyObj

\* ---- C10 ----
\* C10: the constructor registers the functions of its map; addHandler with a function
\* makes it the one handler of the name, whether or not the name had one, changes no
\* other registration and does not throw; a flush invokes, for a pending key, the
\* handler the registry holds for it, once, and no other.
C10_LastRegistrationWins ==
    [][/\ \A funcMap \in FuncMapArgs : (Construct(funcMap) /\ funcMap.t = "Object") =>
            \A k \in Keys :
               Get(stateApplierFunctionMap', k) =
                  IF PairGet(funcMap.o, k) \in Fns THEN PairGet(funcMap.o, k) ELSE Undefined
       /\ \A name \in Keys, func \in Fns : AddHandler(name, func) =>
            /\ DOMAIN stateApplierFunctionMap' = DOMAIN stateApplierFunctionMap \cup {name}
            /\ stateApplierFunctionMap'[name] = func
            /\ \A k \in DOMAIN stateApplierFunctionMap \ {name} :
                 stateApplierFunctionMap'[k] = stateApplierFunctionMap[k]
            /\ result' = "this"
       /\ \A id \in TimerIds : TimerFire(id) =>
            /\ \A k \in PairKeys(nextStateChanges) \cap DOMAIN stateApplierFunctionMap :
                 Cardinality(InvokedFor(flushLog', k)) = 1
            /\ \A i \in DOMAIN flushLog' :
                 flushLog'[i].fn = IF flushLog'[i].key \in DOMAIN stateApplierFunctionMap
                                   THEN stateApplierFunctionMap[flushLog'[i].key]
                                   ELSE "none"]_vars

\* a flush has invoked fn2 for a, the handler the registry holds for a
C10_Witness ==
    /\ "a" \in DOMAIN stateApplierFunctionMap
    /\ stateApplierFunctionMap["a"] = "fn2"
    /\ \E i \in DOMAIN flushLog : flushLog[i].key = "a" /\ flushLog[i].fn = "fn2"

\* ---- C11 ----
\* C11: addHandler(name, func) with func null or undefined is a removeHandler(name) step:
\* the name has no registration afterwards, every other registration is as it was, and
\* state, the pending changes, the armed timer and the scheduled timers are unchanged.
C11_EmptyFuncRemoves ==
    [][\A name \in Keys, func \in {Null, Undefined} : AddHandler(name, func) =>
         /\ RemoveHandler(name)
         /\ name \notin DOMAIN stateApplierFunctionMap'
         /\ DOMAIN stateApplierFunctionMap' = DOMAIN stateApplierFunctionMap \ {name}
         /\ \A k \in DOMAIN stateApplierFunctionMap' :
              stateApplierFunctionMap'[k] = stateApplierFunctionMap[k]
         /\ state' = state
         /\ nextStateChanges' = nextStateChanges
         /\ applierTimeout' = applierTimeout
         /\ timers' = timers
         /\ timerSeq' = timerSeq]_vars

\* a has lost its registration while a change for it is pending and a flush is armed,
\* and b has kept its handler
C11_Witness ==
    /\ "a" \notin DOMAIN stateApplierFunctionMap
    /\ "b" \in DOMAIN stateApplierFunctionMap
    /\ "a" \in PairKeys(nextStateChanges)
    /\ timers # {}
    /\ result = "this"

\* ---- C12 ----
\* C12 (as claimed, the part a caller can observe): a value that applyState staged for a
\* key while the key had no handler is never given to a handler by a later flush and is
\* never committed by it.
C12_HandlerlessCallIsNoOp ==
    [][\A id \in TimerIds : TimerFire(id) =>
         \A k \in Keys :
            unhandledStage[k] # "none" =>
               /\ \A i \in InvokedFor(flushLog', k) : flushLog'[i].newValue # unhandledStage[k]
               /\ SameEntry(state', state, k)]_vars

C14_OneApplyPerFiring ==
    [][/\ bindSeq' # bindSeq =>
            /\ state' = state
            /\ nextStateChanges' = nextStateChanges
            /\ applierTimeout' = applierTimeout
            /\ timers' = timers
            /\ timerSeq' = timerSeq
       /\ \A element \in Elements : DispatchEvent(element) =>
            LET ls == listeners[element]
                Arg(i) == IF ls[i].nextState.t \in {"Function", "AsyncFunction"}
                          THEN Return(ls[i].nextState, state)
                          ELSE ls[i].nextState
                Calls == {i \in DOMAIN ls : Arg(i).t = "Object"}
                Stagers(k) == {i \in Calls : /\ k \in PairKeys(Arg(i).o)
                                              /\ PairGet(Arg(i).o, k) # Get(state, k)}
                Last(S) == CHOOSE i \in S : \A j \in S : j <= i
            IN /\ timerSeq' = timerSeq + Cardinality(Calls)
               /\ PairKeys(nextStateChanges') =
                     PairKeys(nextStateChanges) \cup {k \in Keys : Stagers(k) # {}}
               /\ \A k \in Keys :
                     PairGet(nextStateChanges', k) =
                        IF Stagers(k) = {} THEN PairGet(nextStateChanges, k)
                        ELSE PairGet(Arg(Last(Stagers(k))).o, k)
               /\ state' = state
               /\ stateApplierFunctionMap' = stateApplierFunctionMap
               /\ IF Calls = {}
                  THEN timers' = timers /\ applierTimeout' = applierTimeout
                  ELSE timers' = {timerSeq'} /\ applierTimeout' = timerSeq']_vars

\* a firing has staged what the bound function returned for the committed state: v2 for
\* a, whose committed value is v1
C14_Witness ==
    /\ Get(state, "a") = "v1"
    /\ PairGet(nextStateChanges, "a") = "v2"
    /\ timers = {applierTimeout}
    /\ result = "undefined"
    /\ \E element \in Elements : \E i \in DOMAIN listeners[element] :
          listeners[element][i].nextState.f = "swapA"

C16_SelectSync ==
    [][lastHandler' = "SELECTEVENT" =>
         \A field \in {f \in Fields : f.tagName = "SELECT" /\ ~Falsy(f.name)} :
            \A dom \in DomStates(field) : FieldEvent(field, "change", dom) =>
               /\ field.name \in DOMAIN formState'
               /\ formState'[field.name] =
                     IF field.type = "select-multiple"
                     THEN ArrayValue(SelectedValues(1, dom.selected))
                     ELSE StringValue(dom.value)]_vars

C18_ChangeNotification ==
    [][/\ \A field \in Fields :
            LET events == {l.event : l \in {x \in formListeners' : x.field = field.id}}
            IN events # {} =>
                 events = IF \/ field.tagName = "TEXTAREA"
                             \/ (field.tagName = "INPUT" /\ field.type \notin {"checkbox", "radio"})
                          THEN {"change", "keyup"} ELSE {"change"}
       /\ lastHandler' # "none" =>
            \A l \in formListeners :
               \A field \in {f \in Fields : f.id = l.field /\ ~Falsy(f.name)} :
                  \A dom \in DomStates(field) : FieldEvent(field, l.event, dom) =>
                     changeLog' = IF changeFunction = "changeFunc"
                                  THEN <<[name |-> field.name,
                                          seen |-> Member(formState', field.name)]>>
                                  ELSE <<>>]_vars

\* a keyup on the textarea has written v1 under n2 and changeFunc was called with n2
C18_Witness ==
    /\ lastHandler = "TEXTEVENT"
    /\ changeLog = <<[name |-> "n2", seen |-> StringValue("v1")]>>
    /\ Member(formState, "n2") = StringValue("v1")
    /\ formListeners = {[field |-> "area", event |-> "change", func |-> "TEXTEVENT"],
                        [field |-> "area", event |-> "keyup", func |-> "TEXTEVENT"]}

\* ---- C19 ----
\* C19 (as claimed): bindFormState given an array or a NodeList of fields, empty or not,
\* returns the object its handlers write to: targetObject when one is given, a new empty
\* object otherwise; and the handlers write to that object ever after.
C19_ReturnsLiveMapping ==
    [][/\ formTarget = "none" =>
            \A formElements \in {x \in FormElementArgs : x.t \in {"Array", "NodeList"}},
               targetObject \in TargetArgs, changeFunc \in ChangeFuncArgs :
                 BindFormState(formElements, targetObject, changeFunc) =>
                    /\ formReturn' = IF targetObject.t = "Object"
                                     THEN "targetObject" ELSE "newObject"
                    /\ formTarget' = formReturn'
                    /\ targetObject.t # "Object" => formState' = EmptyObj
       /\ formTarget # "none" => (formTarget' = formTarget /\ formReturn' = formReturn)]_vars

\* ---- C20 ----
\* C20: in every state at most one flush is scheduled, and it is the one the store holds
\* in applierTimeout; a step that arms a flush leaves the new one as the only one
\* scheduled, whatever was scheduled before and whether or not the flush held in
\* applierTimeout had already fired.
C20_AtMostOneFlush ==
    /\ [](Cardinality(timers) <= 1 /\ timers \subseteq {applierTimeout})
    /\ [][timerSeq' # timerSeq =>
            /\ timers' = {timerSeq'}
            /\ timers' \cap timers = {}
            /\ Cardinality(timers') = 1]_vars

\* a flush is armed on a store whose earlier flush has fired and committed a value
C20_Witness ==
    /\ timers = {applierTimeout}
    /\ applierTimeout > 1
    /\ nextStateChanges # <<>>
    /\ state # EmptyObj

\* ---- C21 ----
\* C21 (as claimed): the store is Idle or Dirty in every reachable state, so whenever
\* changes are pending a flush is scheduled to deliver them.
C21_PendingIsScheduled == nextStateChanges # <<>> => timers # {}

C23_CallThenCommit ==
    [][\A id \in TimerIds : TimerFireCalling(id) =>
         \A i \in DOMAIN flushLog' :
            LET e == flushLog'[i]
            IN e.fn # "none" =>
                 /\ e.oldValue = Get(state, e.key)
                 /\ IF Throws(e.fn) THEN SameEntry(state, state', e.key)
                    ELSE state'[e.key] = e.newValue
                 /\ (CallsStore(e.fn) /\ e.key \in PairKeys(CallArg.o)) =>
                       (e.key \in e.staged <=> PairGet(CallArg.o, e.key) # e.oldValue)]_vars

\* the handler of a was called with "v2" for a and staged "v2" for a by its own call,
\* since the state did not hold it yet; the flush committed it afterwards
C23_Witness ==
    \E i \in DOMAIN flushLog :
        /\ flushLog[i].fn = "fnApplyA"
        /\ flushLog[i].key = "a"
        /\ flushLog[i].newValue = "v2"
        /\ flushLog[i].staged = {"a"}
        /\ Get(state, "a") = "v2"

\* ---- C24 ----
\* C24: when a handler throws during a flush, the keys the flush processed before it stay
\* committed, the throwing key is not committed, and the keys pending after it are
\* neither handed to their handlers nor committed by that flush.
C24_PartialApplication ==
    [][\A id \in TimerIds : (TimerFireCalling(id) /\ result' = "throw") =>
         LET n == Len(flushLog')
         IN /\ n >= 1
            /\ Throws(flushLog'[n].fn)
            /\ [i \in 1..n |-> flushLog'[i].key] = SubSeq(KeysInOrder(nextStateChanges), 1, n)
            /\ \A i \in 1..(n - 1) :
                  flushLog'[i].fn # "none" => state'[flushLog'[i].key] = flushLog'[i].newValue
            /\ \A i \in n..Len(nextStateChanges) :
                  SameEntry(state, state', nextStateChanges[i].key)]_vars

\* a flush committed a changed value for its first key, and the handler of its second key
\* threw: the second key holds its old value
C24_Witness ==
    /\ result = "throw"
    /\ Len(flushLog) = 2
    /\ flushLog[1].fn = "fn1"
    /\ flushLog[1].newValue # flushLog[1].oldValue
    /\ Get(state, flushLog[1].key) = flushLog[1].newValue
    /\ Throws(flushLog[2].fn)
    /\ flushLog[2].newValue # flushLog[2].oldValue
    /\ Get(state, flushLog[2].key) = flushLog[2].oldValue

C26_ReentrantStagingKept ==
    [][\A id \in TimerIds : TimerFireCalling(id) =>
         \A i \in DOMAIN flushLog' :
            \A k \in flushLog'[i].staged \cap DOMAIN stateApplierFunctionMap :
               \/ \E j \in (i + 1)..Len(flushLog') :
                     /\ flushLog'[j].key = k
                     /\ flushLog'[j].fn # "none"
                     /\ flushLog'[j].newValue = PairGet(CallArg.o, k)
               \/ /\ k \in PairKeys(nextStateChanges')
                  /\ PairGet(nextStateChanges', k) = PairGet(CallArg.o, k)
                  /\ timers' # {}]_vars

\* ---- C27 ----
\* C27 (as claimed): a touchState does not discard a change that is already staged. Taken
\* for a key the state has never held: when applyState has staged a value for it (any
\* value differs from the committed undefined) and touchState is then called for it
\* before the flush, the flush hands the staged value to the handler and commits it.
C27_TouchKeepsStaged ==
    [][\A id \in TimerIds : TimerFire(id) =>
         \A k \in Keys :
            (/\ k \notin DOMAIN state
             /\ lastApplied[k] # "none"
             /\ lastStage[k].by = "touch"
             /\ k \in DOMAIN stateApplierFunctionMap) =>
                /\ \E i \in InvokedFor(flushLog', k) : flushLog'[i].newValue = lastApplied[k]
                /\ Get(state', k) = lastApplied[k]]_vars

\* ---- C28 ----
\* C28 (as claimed): no staged change is delivered twice, a flush in which a later handler
\* threw included: a key that a flush has delivered and committed, and that no handler of
\* that flush staged again, is not pending when the flush ends.
C28_DeliveredNotPending ==
    [][\A id \in TimerIds : TimerFireCalling(id) =>
         \A i \in DOMAIN flushLog' :
            (/\ flushLog'[i].fn # "none"
             /\ ~Throws(flushLog'[i].fn)
             /\ \A j \in DOMAIN flushLog' : flushLog'[i].key \notin flushLog'[j].staged) =>
                flushLog'[i].key \notin PairKeys(nextStateChanges')]_vars

\* ---- C29 ----
\* C29 (as claimed): a key staged by applyState only, never by touchState, is delivered as
\* a real change, whatever setState calls come between the staging and the flush: the
\* handler is called with a new value that differs from the old one.
C29_AppliedIsRealChange ==
    [][\A id \in TimerIds : TimerFire(id) =>
         \A i \in DOMAIN flushLog' :
            flushLog'[i].fn # "none" => flushLog'[i].newValue # flushLog'[i].oldValue]_vars

====
